---- MODULE Spec2Model ----
(***************************************************************************)
(* State-machine model of load_data.py: the one-shot loader that connects  *)
(* to PostgreSQL with a bounded retry, reads /app/books.csv row by row,    *)
(* inserts one books row per CSV row, resolves every author mention with   *)
(* get_or_create_author, links book and author in book_author, commits,    *)
(* and finally closes the cursor and the connection.                       *)
(*                                                                         *)
(* Strings that the program inspects (the authors field, author names) are *)
(* sequences of one-character strings, so that split(',') and strip() are  *)
(* computed character by character.  The store is a committed state plus   *)
(* the pending work of the connection's single open transaction: commit()  *)
(* makes ALL pending work durable, close() without commit discards it.     *)
(***************************************************************************)
EXTENDS Integers, Sequences, FiniteSets, TLC

\* ------------------------------------------------------------------ bounds
\* A CSV has at most MaxRows rows and, over all its rows, at most MaxChars
\* characters of authors fields.
MaxRows == 2
MaxChars == 3
\* The retry budgets tried when the budget is not the default: 0..MaxRetries.
MaxRetries == 6

\* ------------------------------------------------------- program constants
DefaultRetries == 5

\* ------------------------------------------------------------ input domains
Whitespace == {" "}
Alphabet == {"a", "A", " ", ","}
ISBNs == {"i1", "i2"}

RECURSIVE StringsUpTo(_)
StringsUpTo(n) ==
    IF n = 0 THEN {<<>>}
    ELSE LET shorter == StringsUpTo(n - 1)
         IN  shorter \cup {Append(s, c) : s \in {t \in shorter : Len(t) = n - 1}, c \in Alphabet}

Fields == StringsUpTo(MaxChars)
CsvRows == [isbn13 : ISBNs, authors : Fields]

\* The authors tables a run may start from: no author yet, or one author left
\* behind by an earlier run.  No table has two rows with the same name.
SeedAuthors == {<<>>, <<[author_id |-> 1, name |-> <<"a">>]>>}

\* ------------------------------------------------- str.split(',') / strip()
\* Empty pieces are dropped, as split() without a separator would do.
RECURSIVE SplitCommaDropsEmpty(_)
SplitCommaDropsEmpty(s) ==
    IF s = <<>> THEN <<>>
    ELSE IF \A i \in 1..Len(s) : s[i] # ","
    THEN <<s>>
    ELSE LET i == CHOOSE j \in 1..Len(s) : s[j] = "," /\ \A k \in 1..(j - 1) : s[k] # ","
         IN  (IF i = 1 THEN <<>> ELSE <<SubSeq(s, 1, i - 1)>>)
                 \o SplitCommaDropsEmpty(SubSeq(s, i + 1, Len(s)))

RECURSIVE SplitComma(_)
SplitComma(s) ==
    IF \A i \in 1..Len(s) : s[i] # ","
    THEN <<s>>
    ELSE LET i == CHOOSE j \in 1..Len(s) : s[j] = "," /\ \A k \in 1..(j - 1) : s[k] # ","
         IN  <<SubSeq(s, 1, i - 1)>> \o SplitComma(SubSeq(s, i + 1, Len(s)))

RECURSIVE LStrip(_)
LStrip(s) == IF s # <<>> /\ Head(s) \in Whitespace THEN LStrip(Tail(s)) ELSE s

RECURSIVE RStrip(_)
RStrip(s) ==
    IF s # <<>> /\ s[Len(s)] \in Whitespace THEN RStrip(SubSeq(s, 1, Len(s) - 1)) ELSE s

StripLeftOnly(s) == LStrip(s)

Strip(s) == RStrip(LStrip(s))

\* authors = [author.strip() for author in row['authors'].split(',')]
SplitAuthors(field) ==
    LET parts == SplitComma(field)
    IN  [i \in 1..Len(parts) |-> Strip(parts[i])]

\* ------------------------------------------------------------------- state
VARIABLES
    pc,            \* position of the script
    retries,       \* parameter of connect_to_database
    attempt,       \* loop variable of connect_to_database (0 outside the call)
    conn, cur,     \* "none" | "open" | "closed"
    exitStatus,    \* exit status of the process; -1 while it runs
    csv,           \* rows the reader has yielded so far
    row,           \* index in csv of the row being processed (0: none)
    book_id, authors, aIdx, author_id,   \* locals of the row body
    books, authorsTbl, book_author,      \* committed (durable) tables
    tx,            \* pending work of the open transaction
    nextBookId, nextAuthorId,            \* the store's id generators
    hist           \* history: what the run has done so far

vars == <<pc, retries, attempt, conn, cur, exitStatus, csv, row, book_id, authors,
          aIdx, author_id, books, authorsTbl, book_author, tx, nextBookId,
          nextAuthorId, hist>>

EmptyTx == [books |-> <<>>, authors |-> <<>>, book_author |-> <<>>]

\* What the open transaction sees: committed rows followed by its own inserts.
ViewAuthors == authorsTbl \o tx.authors
ViewBookAuthor == book_author \o tx.book_author

InitHist ==
    [error |-> "none", trace |-> <<>>, execs |-> 0, commits |-> 0,
     opened |-> FALSE, calls |-> <<>>, rets |-> <<>>, resolved |-> {}, lateOps |-> 0,
     seed |-> <<>>, attempts |-> 0, sleeps |-> 0,
     run |-> 1, file |-> <<>>, first |-> [books |-> <<>>, authors |-> <<>>, resolved |-> {}]]

Init ==
    /\ pc = "connect"
    /\ retries = DefaultRetries
    /\ attempt = 0
    /\ conn = "none" /\ cur = "none"
    /\ exitStatus = -1
    /\ csv = <<>> /\ row = 0
    /\ book_id = 0 /\ authors = <<>> /\ aIdx = 0 /\ author_id = 0
    /\ books = <<>>
    /\ authorsTbl \in SeedAuthors
    /\ book_author = <<>>
    /\ tx = EmptyTx
    /\ nextBookId = 1
    /\ nextAuthorId = Len(authorsTbl) + 1
    /\ hist = [InitHist EXCEPT !.seed = authorsTbl]


\* ---------------------------------------------------------------- helpers
Note(h, step) == [h EXCEPT !.trace = Append(@, step)]

\* A store operation issued while the cursor or the connection is not open.
Late == IF conn = "open" /\ cur = "open" THEN 0 ELSE 1

Exec(h) == [h EXCEPT !.execs = @ + 1, !.lateOps = @ + Late]
Committing(h) == [h EXCEPT !.commits = @ + 1, !.lateOps = @ + Late]

CommitTxLosesLinks ==
    /\ books' = books \o tx.books
    /\ authorsTbl' = authorsTbl \o tx.authors
    /\ book_author' = book_author
    /\ tx' = EmptyTx

\* conn.commit(): everything pending on the connection becomes durable.
CommitTx ==
    /\ books' = books \o tx.books
    /\ authorsTbl' = authorsTbl \o tx.authors
    /\ book_author' = book_author \o tx.book_author
    /\ tx' = EmptyTx

\* ------------------------------------------------- connect_to_database
\* psycopg2.connect is called once more; time.sleep is called once more.  Both
\* count the calls of the connect_to_database call in progress.
Tried(h) == [h EXCEPT !.attempts = @ + 1]
Slept(h) == [h EXCEPT !.sleeps = @ + 1]

ConnectOk ==
    /\ pc = "connect"
    /\ attempt < retries
    /\ conn' = "open"
    /\ pc' = "cursor"
    /\ hist' = Tried(Note(hist, "connect"))
    /\ UNCHANGED <<retries, attempt, cur, exitStatus, csv, row, book_id, authors, aIdx,
                   author_id, books, authorsTbl, book_author, tx, nextBookId, nextAuthorId>>

ConnectFailGivesUpEarly ==
    /\ pc = "connect"
    /\ attempt < retries
    /\ IF attempt < retries - 2
       THEN pc' = "sleep" /\ UNCHANGED exitStatus
       ELSE pc' = "exited" /\ exitStatus' = 1
    /\ hist' = Tried(hist)
    /\ UNCHANGED <<retries, attempt, conn, cur, csv, row, book_id, authors, aIdx, author_id,
                   books, authorsTbl, book_author, tx, nextBookId, nextAuthorId>>

\* Off by one in line 28: the last failure sleeps too and the loop runs out.
ConnectFailAlwaysSleeps ==
    /\ pc = "connect"
    /\ attempt < retries
    /\ pc' = "sleep" /\ UNCHANGED exitStatus
    /\ hist' = Tried(hist)
    /\ UNCHANGED <<retries, attempt, conn, cur, csv, row, book_id, authors, aIdx, author_id,
                   books, authorsTbl, book_author, tx, nextBookId, nextAuthorId>>

ConnectFail ==
    /\ pc = "connect"
    /\ attempt < retries
    /\ IF attempt < retries - 1
       THEN pc' = "sleep" /\ UNCHANGED exitStatus
       ELSE pc' = "exited" /\ exitStatus' = 1
    /\ hist' = Tried(hist)
    /\ UNCHANGED <<retries, attempt, conn, cur, csv, row, book_id, authors, aIdx, author_id,
                   books, authorsTbl, book_author, tx, nextBookId, nextAuthorId>>

\* The retry starts the loop over instead of going on to the next attempt.
SleepRestartsLoop ==
    /\ pc = "sleep"
    /\ attempt' = 0
    /\ pc' = "connect"
    /\ hist' = [hist EXCEPT !.attempts = 0, !.sleeps = 0]
    /\ UNCHANGED <<retries, conn, cur, exitStatus, csv, row, book_id, authors, aIdx,
                   author_id, books, authorsTbl, book_author, tx, nextBookId, nextAuthorId>>

Sleep ==
    /\ pc = "sleep"
    /\ attempt' = attempt + 1
    /\ pc' = "connect"
    /\ hist' = Slept(hist)
    /\ UNCHANGED <<retries, conn, cur, exitStatus, csv, row, book_id, authors, aIdx,
                   author_id, books, authorsTbl, book_author, tx, nextBookId, nextAuthorId>>

\* ------------------------------------------------------------- startup
\* Lines 35-36: the call has returned (its local attempt and the counts of its
\* calls are gone) and the cursor is obtained from the connection.
Cursor ==
    /\ pc = "cursor"
    /\ conn = "open"
    /\ attempt' = 0
    /\ cur' = "open"
    /\ pc' = "open_csv"
    /\ hist' = [Note(hist, "cursor") EXCEPT !.attempts = 0, !.sleeps = 0]
    /\ UNCHANGED <<retries, conn, exitStatus, csv, row, book_id, authors, aIdx,
                   author_id, books, authorsTbl, book_author, tx, nextBookId, nextAuthorId>>

\* ------------------------------------------------------------ ingestion
OpenMissingUncaught ==
    /\ pc = "open_csv"
    /\ pc' = "exited"
    /\ exitStatus' = 1
    /\ hist' = [Note(hist, "ingest") EXCEPT !.error = "nofile"]
    /\ UNCHANGED <<retries, attempt, conn, cur, csv, row, book_id, authors, aIdx,
                   author_id, books, authorsTbl, book_author, tx, nextBookId, nextAuthorId>>

\* open() raises FileNotFoundError: the handler of line 77 catches it.
OpenMissing ==
    /\ pc = "open_csv"
    /\ pc' = "close_cur"
    /\ hist' = [Note(hist, "ingest") EXCEPT !.error = "nofile"]
    /\ UNCHANGED <<retries, attempt, conn, cur, exitStatus, csv, row, book_id, authors, aIdx,
                   author_id, books, authorsTbl, book_author, tx, nextBookId, nextAuthorId>>

OpenCsv ==
    /\ pc = "open_csv"
    /\ pc' = "next_row"
    /\ hist' = [Note(hist, "ingest") EXCEPT !.opened = TRUE]
    /\ UNCHANGED <<retries, attempt, conn, cur, exitStatus, csv, row, book_id, authors, aIdx,
                   author_id, books, authorsTbl, book_author, tx, nextBookId, nextAuthorId>>

RECURSIVE CharsOf(_)
CharsOf(rows) == IF rows = <<>> THEN 0 ELSE Len(Head(rows).authors) + CharsOf(Tail(rows))

NextRow ==
    /\ pc = "next_row"
    /\ Len(csv) < MaxRows
    /\ \E r \in CsvRows :
          /\ CharsOf(csv) + Len(r.authors) <= MaxChars
          /\ csv' = Append(csv, r)
    /\ row' = Len(csv) + 1
    /\ pc' = "insert_book"
    /\ UNCHANGED <<retries, attempt, conn, cur, exitStatus, book_id, authors, aIdx, author_id,
                   books, authorsTbl, book_author, tx, nextBookId, nextAuthorId, hist>>

EndOfCsv ==
    /\ pc = "next_row"
    /\ pc' = "close_cur"
    /\ UNCHANGED <<retries, attempt, conn, cur, exitStatus, csv, row, book_id, authors, aIdx,
                   author_id, books, authorsTbl, book_author, tx, nextBookId, nextAuthorId,
                   hist>>

InsertBook ==
    /\ pc = "insert_book"
    /\ tx' = [tx EXCEPT !.books =
                Append(@, [book_id |-> nextBookId, isbn13 |-> csv[row].isbn13])]
    /\ book_id' = nextBookId
    /\ nextBookId' = nextBookId + 1
    /\ authors' = SplitAuthors(csv[row].authors)
    /\ aIdx' = 1
    /\ pc' = IF SplitAuthors(csv[row].authors) # <<>> THEN "lookup" ELSE "row_commit"
    /\ hist' = [Exec(hist) EXCEPT !.calls = <<>>, !.rets = <<>>]
    /\ UNCHANGED <<retries, attempt, conn, cur, exitStatus, csv, row, author_id, books,
                   authorsTbl, book_author, nextAuthorId>>

\* The call returns id for name: recorded for the row and for the run.
Returned(h, name, id) ==
    [h EXCEPT !.rets = Append(@, id), !.resolved = @ \cup {<<name, id>>}]

FindAuthorNever(view, name) == {}

\* Only the rows this run has created itself (a name cache instead of a query).
FindAuthorInRun(view, name) ==
    {i \in 1..Len(view) : view[i].name = name /\ i > Len(hist.seed)}

\* SELECT author_id FROM authors WHERE name = %s: the rows that match.
FindAuthor(view, name) == {i \in 1..Len(view) : view[i].name = name}

\* The early return commits, as the creating path does.
LookupCommitsWhenFound ==
    /\ pc = "lookup"
    /\ LET name == authors[aIdx]
           found == FindAuthor(ViewAuthors, name)
           h == [Exec(hist) EXCEPT !.calls = Append(@, name)]
       IN  IF found # {}
           THEN \E i \in found :
                   /\ author_id' = ViewAuthors[i].author_id
                   /\ hist' = Returned(Committing(h), name, ViewAuthors[i].author_id)
                   /\ pc' = "assoc"
                   /\ CommitTx
           ELSE /\ pc' = "ins_author"
                /\ hist' = h
                /\ UNCHANGED <<author_id, books, authorsTbl, book_author, tx>>
    /\ UNCHANGED <<retries, attempt, conn, cur, exitStatus, csv, row, book_id, authors, aIdx,
                   nextBookId, nextAuthorId>>

\* get_or_create_author, lines 40-45: the lookup and the early return.
Lookup ==
    /\ pc = "lookup"
    /\ LET name == authors[aIdx]
           found == FindAuthor(ViewAuthors, name)
           h == [Exec(hist) EXCEPT !.calls = Append(@, name)]
       IN  IF found # {}
           THEN \E i \in found :
                   /\ author_id' = ViewAuthors[i].author_id
                   /\ hist' = Returned(h, name, ViewAuthors[i].author_id)
                   /\ pc' = "assoc"
           ELSE /\ pc' = "ins_author"
                /\ hist' = h
                /\ UNCHANGED author_id
    /\ UNCHANGED <<retries, attempt, conn, cur, exitStatus, csv, row, book_id, authors, aIdx,
                   books, authorsTbl, book_author, tx, nextBookId, nextAuthorId>>

\* get_or_create_author, line 46.
InsertAuthor ==
    /\ pc = "ins_author"
    /\ tx' = [tx EXCEPT !.authors =
                Append(@, [author_id |-> nextAuthorId, name |-> authors[aIdx]])]
    /\ nextAuthorId' = nextAuthorId + 1
    /\ pc' = "author_commit"
    /\ hist' = Exec(hist)
    /\ UNCHANGED <<retries, attempt, conn, cur, exitStatus, csv, row, book_id, authors, aIdx,
                   author_id, books, authorsTbl, book_author, nextBookId>>

AuthorCommitDeferred ==
    /\ pc = "author_commit"
    /\ LET new_author_id == tx.authors[Len(tx.authors)].author_id
       IN  /\ author_id' = new_author_id
           /\ hist' = Returned(hist, authors[aIdx], new_author_id)
    /\ pc' = "assoc"
    /\ UNCHANGED <<retries, attempt, conn, cur, exitStatus, csv, row, book_id, authors, aIdx,
                   books, authorsTbl, book_author, tx, nextBookId, nextAuthorId>>

\* get_or_create_author, lines 47-50.
AuthorCommit ==
    /\ pc = "author_commit"
    /\ CommitTx
    /\ LET new_author_id == tx.authors[Len(tx.authors)].author_id
       IN  /\ author_id' = new_author_id
           /\ hist' = Returned(Committing(hist), authors[aIdx], new_author_id)
    /\ pc' = "assoc"
    /\ UNCHANGED <<retries, attempt, conn, cur, exitStatus, csv, row, book_id, authors, aIdx,
                   nextBookId, nextAuthorId>>

InsertBookAuthorAlways(table, pending, pair) == Append(pending, pair)

\* INSERT INTO book_author ... ON CONFLICT (book_id, author_id) DO NOTHING
InsertBookAuthor(table, pending, pair) ==
    IF \E i \in 1..Len(table \o pending) : (table \o pending)[i] = pair
    THEN pending
    ELSE Append(pending, pair)

LinkAuthor ==
    /\ pc = "assoc"
    /\ tx' = [tx EXCEPT !.book_author =
                InsertBookAuthor(book_author, @, <<book_id, author_id>>)]
    /\ aIdx' = aIdx + 1
    /\ pc' = IF aIdx < Len(authors) THEN "lookup" ELSE "row_commit"
    /\ hist' = Exec(hist)
    /\ UNCHANGED <<retries, attempt, conn, cur, exitStatus, csv, row, book_id, authors,
                   author_id, books, authorsTbl, book_author, nextBookId, nextAuthorId>>

RowCommit ==
    /\ pc = "row_commit"
    /\ CommitTx
    /\ pc' = "next_row"
    /\ hist' = Committing(hist)
    /\ UNCHANGED <<retries, attempt, conn, cur, exitStatus, csv, row, book_id, authors, aIdx,
                   author_id, nextBookId, nextAuthorId>>

\* Reading the next row, or any statement of the row body, raises: the handler
\* of line 79 catches it.
ReadPcs == {"next_row"}
ExecPcs == {"insert_book", "lookup", "ins_author", "assoc"}
CommitPcs == {"author_commit", "row_commit"}
Issued(h) == IF pc \in ExecPcs THEN Exec(h) ELSE IF pc \in CommitPcs THEN Committing(h) ELSE h

RowFailsSkipsRow ==
    /\ pc \in ReadPcs \cup ExecPcs \cup CommitPcs
    /\ pc' = "next_row"
    /\ hist' = [Issued(hist) EXCEPT !.error = "other"]
    /\ UNCHANGED <<retries, attempt, conn, cur, exitStatus, csv, row, book_id, authors, aIdx,
                   author_id, books, authorsTbl, book_author, tx, nextBookId, nextAuthorId>>

RowFailsNoTeardown ==
    /\ pc \in ReadPcs \cup ExecPcs \cup CommitPcs
    /\ pc' = "done"
    /\ hist' = [Issued(hist) EXCEPT !.error = "other"]
    /\ UNCHANGED <<retries, attempt, conn, cur, exitStatus, csv, row, book_id, authors, aIdx,
                   author_id, books, authorsTbl, book_author, tx, nextBookId, nextAuthorId>>

RowFails ==
    /\ pc \in ReadPcs \cup ExecPcs \cup CommitPcs
    /\ pc' = "close_cur"
    /\ hist' = [Issued(hist) EXCEPT !.error = "other"]
    /\ UNCHANGED <<retries, attempt, conn, cur, exitStatus, csv, row, book_id, authors, aIdx,
                   author_id, books, authorsTbl, book_author, tx, nextBookId, nextAuthorId>>

\* ------------------------------------------------------------- teardown
CloseCursor ==
    /\ pc = "close_cur"
    /\ cur' = "closed"
    /\ pc' = "close_conn"
    /\ hist' = Note(hist, "close_cur")
    /\ UNCHANGED <<retries, attempt, conn, exitStatus, csv, row, book_id, authors, aIdx,
                   author_id, books, authorsTbl, book_author, tx, nextBookId, nextAuthorId>>

CloseConnReportsError ==
    /\ pc = "close_conn"
    /\ conn' = "closed"
    /\ tx' = EmptyTx
    /\ exitStatus' = IF hist.error = "none" THEN 0 ELSE 1
    /\ pc' = "done"
    /\ hist' = Note(hist, "close_conn")
    /\ UNCHANGED <<retries, attempt, cur, csv, row, book_id, authors, aIdx, author_id, books,
                   authorsTbl, book_author, nextBookId, nextAuthorId>>

\* conn.close() discards the work that was never committed; the script ends.
CloseConn ==
    /\ pc = "close_conn"
    /\ conn' = "closed"
    /\ tx' = EmptyTx
    /\ exitStatus' = 0
    /\ pc' = "done"
    /\ hist' = Note(hist, "close_conn")
    /\ UNCHANGED <<retries, attempt, cur, csv, row, book_id, authors, aIdx, author_id, books,
                   authorsTbl, book_author, nextBookId, nextAuthorId>>

Next ==
    \/ ConnectOk \/ ConnectFail \/ Sleep
    \/ Cursor
    \/ OpenMissing \/ OpenCsv \/ NextRow \/ EndOfCsv
    \/ InsertBook \/ Lookup \/ InsertAuthor \/ AuthorCommit \/ LinkAuthor \/ RowCommit
    \/ RowFails
    \/ CloseCursor \/ CloseConn

Spec == Init /\ [][Next]_vars

\* The script is one sequential thread: as long as a statement remains to be
\* run, and every call it makes returns, the next statement is run.
SpecFair == Spec /\ WF_vars(Next)

\* ------------------------------------------------- other retry budgets
\* connect_to_database(retries=r) for r in 0..MaxRetries, followed by the script
\* on a books.csv that is missing or has no row.
InitRetry ==
    /\ pc = "connect"
    /\ retries \in 0..MaxRetries
    /\ attempt = 0
    /\ conn = "none" /\ cur = "none"
    /\ exitStatus = -1
    /\ csv = <<>> /\ row = 0
    /\ book_id = 0 /\ authors = <<>> /\ aIdx = 0 /\ author_id = 0
    /\ books = <<>>
    /\ authorsTbl \in SeedAuthors
    /\ book_author = <<>>
    /\ tx = EmptyTx
    /\ nextBookId = 1
    /\ nextAuthorId = Len(authorsTbl) + 1
    /\ hist = [InitHist EXCEPT !.seed = authorsTbl]

\* range(retries) is exhausted without a return or an exit: the function ends
\* and returns None.
ReturnNone ==
    /\ pc = "connect"
    /\ ~(attempt < retries)
    /\ pc' = "cursor"
    /\ UNCHANGED <<retries, attempt, conn, cur, exitStatus, csv, row, book_id, authors, aIdx,
                   author_id, books, authorsTbl, book_author, tx, nextBookId, nextAuthorId,
                   hist>>

\* Line 36 on None: AttributeError outside any handler ends the process.
CursorOnNone ==
    /\ pc = "cursor"
    /\ conn = "none"
    /\ pc' = "exited"
    /\ exitStatus' = 1
    /\ UNCHANGED <<retries, attempt, conn, cur, csv, row, book_id, authors, aIdx, author_id,
                   books, authorsTbl, book_author, tx, nextBookId, nextAuthorId, hist>>

NextRetry ==
    \/ ConnectOk \/ ConnectFail \/ Sleep \/ ReturnNone
    \/ Cursor \/ CursorOnNone
    \/ OpenMissing \/ OpenCsv \/ EndOfCsv
    \/ RowFails
    \/ CloseCursor \/ CloseConn

SpecRetry == InitRetry /\ [][NextRetry]_vars

\* ------------------------------------------------- running the loader again
\* After a run that ended without error the script is started a second time
\* on the same store and the same books.csv: a new process, the same tables.
Rerun ==
    /\ pc = "done" /\ hist.error = "none" /\ hist.run = 1
    /\ pc' = "connect"
    /\ attempt' = 0
    /\ conn' = "none" /\ cur' = "none"
    /\ exitStatus' = -1
    /\ csv' = <<>> /\ row' = 0
    /\ book_id' = 0 /\ authors' = <<>> /\ aIdx' = 0 /\ author_id' = 0
    /\ tx' = EmptyTx
    /\ hist' = [InitHist EXCEPT !.seed = authorsTbl, !.run = 2, !.file = csv,
                   !.first = [books |-> books, authors |-> authorsTbl,
                              resolved |-> hist.resolved]]
    /\ UNCHANGED <<retries, books, authorsTbl, book_author, nextBookId, nextAuthorId>>

\* The reader of the second run yields the rows of the same file.
RereadRow ==
    /\ hist.run = 2
    /\ pc = "next_row"
    /\ Len(csv) < Len(hist.file)
    /\ csv' = Append(csv, hist.file[Len(csv) + 1])
    /\ row' = Len(csv) + 1
    /\ pc' = "insert_book"
    /\ UNCHANGED <<retries, attempt, conn, cur, exitStatus, book_id, authors, aIdx, author_id,
                   books, authorsTbl, book_author, tx, nextBookId, nextAuthorId, hist>>

RereadEnd ==
    /\ hist.run = 2
    /\ pc = "next_row"
    /\ Len(csv) = Len(hist.file)
    /\ pc' = "close_cur"
    /\ UNCHANGED <<retries, attempt, conn, cur, exitStatus, csv, row, book_id, authors, aIdx,
                   author_id, books, authorsTbl, book_author, tx, nextBookId, nextAuthorId,
                   hist>>

NextRerun ==
    \/ hist.run = 1 /\ Next
    \/ Rerun
    \/ hist.run = 2 /\ pc # "next_row" /\ Next
    \/ hist.run = 2 /\ RowFails
    \/ RereadRow
    \/ RereadEnd

SpecRerun == Init /\ [][NextRerun]_vars

TypeOK ==
    /\ pc \in {"connect", "sleep", "exited", "cursor", "open_csv", "next_row", "insert_book",
               "lookup", "ins_author", "author_commit", "assoc", "row_commit", "close_cur",
               "close_conn", "done"}
    /\ attempt \in 0..retries
    /\ Len(csv) <= MaxRows


\* =================================================================== claims
\* What the claims mean by the entries of an authors field and by a trimmed
\* name, stated from the positions of the commas and of the whitespace.
CommaPos(s) == {p \in 1..Len(s) : s[p] = ","}
EntryCount(s) == Cardinality(CommaPos(s)) + 1
NthComma(s, n) == CHOOSE p \in CommaPos(s) : Cardinality({q \in CommaPos(s) : q < p}) = n - 1
Entry(s, i) ==
    LET first == IF i = 1 THEN 1 ELSE NthComma(s, i - 1) + 1
        last == IF i = EntryCount(s) THEN Len(s) ELSE NthComma(s, i) - 1
    IN  SubSeq(s, first, last)

IsTrimOf(n, e) ==
    \E a, b \in 0..Len(e) :
        /\ a + b <= Len(e)
        /\ n = SubSeq(e, a + 1, Len(e) - b)
        /\ \A p \in 1..a : e[p] \in Whitespace
        /\ \A p \in (Len(e) - b + 1)..Len(e) : e[p] \in Whitespace
        /\ n = <<>> \/ (n[1] \notin Whitespace /\ n[Len(n)] \notin Whitespace)

Trimmed(e) ==
    CHOOSE n \in {SubSeq(e, a, b) : a \in 1..(Len(e) + 1), b \in 0..Len(e)} : IsTrimOf(n, e)

EntryNames(field) == [i \in 1..EntryCount(field) |-> Trimmed(Entry(field, i))]
RowNames(i) == {EntryNames(csv[i].authors)[j] : j \in 1..EntryCount(csv[i].authors)}

Range(f) == {f[i] : i \in DOMAIN f}
Distinct(f) == \A i, j \in DOMAIN f : i # j => f[i] # f[j]
NamedIds(tbl, n) == {tbl[i].author_id : i \in {j \in 1..Len(tbl) : tbl[j].name = n}}
LinksOf(ba, b) == {k \in 1..Len(ba) : ba[k][1] = b}
\* Row i's book is in the committed store, linked once to each of its names.
RowLinked(i) ==
    \A n \in RowNames(i) :
        Cardinality({k \in LinksOf(book_author, books[i].book_id) :
                        book_author[k][2] \in NamedIds(authorsTbl, n)}) = 1

NoIngestion ==
    /\ ~hist.opened /\ hist.execs = 0 /\ hist.commits = 0 /\ hist.trace = <<>>
    /\ books = <<>> /\ book_author = <<>> /\ authorsTbl = hist.seed /\ tx = EmptyTx

\* C1: with the default budget of 5 attempts, a call that returns (also on the
\* 5th attempt, after 4 failures) returns an open connection and the script goes
\* on to the cursor and to ingestion; when the 5th attempt fails too the process
\* exits with status 1 and nothing of ingestion has happened or ever happens.
C1_State ==
    /\ pc = "cursor" => conn = "open"
    /\ exitStatus = 1 <=> pc = "exited"
    /\ pc = "exited" => attempt = 4 /\ retries = 5 /\ conn = "none" /\ cur = "none" /\ NoIngestion
    /\ pc = "done" => \E i \in 1..Len(hist.trace) : hist.trace[i] = "ingest"
C1_Step ==
    /\ pc = "connect" /\ conn' = "open" => pc' = "cursor"
    /\ pc = "cursor" => pc' = "open_csv" /\ conn' = "open"
    /\ pc = "open_csv" => hist'.trace = Append(hist.trace, "ingest")
C1_RetryThenIngestOrExit == []C1_State /\ [][C1_Step]_vars
C1_Witness == pc = "cursor" /\ attempt = 4 /\ conn = "open"

\* C2: after a clean run over a CSV of N rows the committed books table holds
\* exactly the N rows of the CSV, in row order, and book_author holds exactly one
\* row per (book, trimmed author name) pair.
C2_RowCountPreservation ==
    (pc = "done" /\ hist.error = "none") =>
        /\ Len(books) = Len(csv)
        /\ \A i \in 1..Len(csv) : books[i].isbn13 = csv[i].isbn13
        /\ Distinct([i \in 1..Len(books) |-> books[i].book_id])
        /\ \A i \in 1..Len(csv) : RowLinked(i)
        /\ Len(book_author) =
              Cardinality(UNION {{<<i, n>> : n \in RowNames(i)} : i \in 1..Len(csv)})
C2_Witness ==
    /\ pc = "done" /\ hist.error = "none" /\ Len(csv) = 2
    /\ csv[1].isbn13 # csv[2].isbn13
    /\ Cardinality(RowNames(1)) = 2
    /\ EntryCount(csv[2].authors) > Cardinality(RowNames(2))

\* C3: every name always resolves to one identifier, and the authors table holds
\* one row for each name it started with or has resolved, never two.
C3_AuthorIdempotent ==
    /\ \A p, q \in hist.resolved : p[1] = q[1] => p[2] = q[2]
    /\ \A p \in hist.resolved : NamedIds(authorsTbl, p[1]) = {p[2]}
    /\ Len(authorsTbl) =
          Cardinality({hist.seed[i].name : i \in 1..Len(hist.seed)}
                      \cup {p[1] : p \in hist.resolved})
C3_Witness ==
    /\ pc = "done" /\ hist.error = "none" /\ Len(csv) = 2
    /\ \E n \in RowNames(1) \cap RowNames(2) :
          /\ hist.seed = <<>>
          /\ EntryCount(csv[1].authors) > Cardinality(RowNames(1))

\* C4: book_author, as the transaction sees it, never holds a pair twice; the
\* insert of a pair that is already there changes nothing and the row goes on.
NoDupLinks == Distinct(ViewBookAuthor)
AbsorbedInsert ==
    (/\ pc = "assoc"
     /\ <<book_id, author_id>> \in Range(ViewBookAuthor)
     /\ hist'.error = "none")
    => /\ book_author' \o tx'.book_author = ViewBookAuthor
       /\ pc' \in {"lookup", "row_commit"}
C4_AssociationUnique == []NoDupLinks /\ [][AbsorbedInsert]_vars
C4_Witness ==
    /\ pc = "row_commit"
    /\ Len(hist.rets) = 2
    /\ Cardinality(LinksOf(ViewBookAuthor, book_id)) = 1

\* C5: a field of k comma-separated entries gives k resolver calls, in field
\* order, each with the entry trimmed of surrounding whitespace and otherwise
\* unchanged; the book gets one association per distinct name, so k distinct
\* names give k distinct identifiers and k associations.
JaneJohn ==
    <<"J", "a", "n", "e", " ", "D", "o", "e", ",", " ", "J", "o", "h", "n", " ", "S", "m",
      "i", "t", "h">>
C5_MultiAuthorSplit ==
    /\ pc \in {"lookup", "ins_author", "author_commit", "assoc", "row_commit"} =>
          /\ authors = EntryNames(csv[row].authors)
          /\ Len(authors) = EntryCount(csv[row].authors)
          /\ hist.calls = SubSeq(authors, 1, Len(hist.calls))
    /\ pc = "row_commit" =>
          /\ hist.calls = EntryNames(csv[row].authors)
          /\ Len(hist.rets) = EntryCount(csv[row].authors)
          /\ \A i, j \in 1..Len(hist.rets) :
                (hist.calls[i] = hist.calls[j]) <=> (hist.rets[i] = hist.rets[j])
          /\ Cardinality(LinksOf(ViewBookAuthor, book_id)) = Cardinality(Range(hist.calls))
          /\ Distinct(hist.calls) =>
                /\ Distinct(hist.rets)
                /\ Cardinality(LinksOf(ViewBookAuthor, book_id)) = EntryCount(csv[row].authors)
    /\ pc = "connect" /\ attempt = 0 =>
          SplitAuthors(JaneJohn) = <<SubSeq(JaneJohn, 1, 8), SubSeq(JaneJohn, 11, 20)>>
C5_Witness ==
    /\ pc = "row_commit"
    /\ EntryCount(csv[row].authors) = 2
    /\ Distinct(hist.calls)
    /\ \E p \in 1..Len(csv[row].authors) : csv[row].authors[p] \in Whitespace
    /\ Cardinality(LinksOf(ViewBookAuthor, book_id)) = 2


\* C6: at the end of every run, also of one in which a statement failed, every
\* committed book has a committed association for each trimmed name of its row.
C6_BooksHaveTheirAuthors ==
    pc = "done" =>
        \A i \in 1..Len(books) :
            \A n \in RowNames(i) :
                \E k \in LinksOf(book_author, books[i].book_id) :
                    book_author[k][2] \in NamedIds(authorsTbl, n)

\* C7: the committed books and book_author tables change only at the commit that
\* ends a row; the commit inside get_or_create_author leaves both as they were.
C7_RowAtomicCommit ==
    [][/\ (books' # books \/ book_author' # book_author) => pc = "row_commit"
       /\ pc = "author_commit" => books' = books /\ book_author' = book_author]_vars

\* C8: a failure inside row k is caught: the script goes to teardown and ends
\* with status 0, row k is the last row read, no statement is issued afterwards,
\* and rows 1..k-1 stay committed with all their associations.
Teardown == {"close_cur", "close_conn", "done"}
C8_State ==
    hist.error = "other" =>
        /\ pc \in Teardown
        /\ exitStatus = IF pc = "done" THEN 0 ELSE -1
        /\ Len(csv) = row
        /\ Len(books) >= row - 1
        /\ \A i \in 1..(row - 1) : books[i].isbn13 = csv[i].isbn13 /\ RowLinked(i)
C8_Step ==
    /\ hist'.error = "other" =>
          /\ books' = books /\ book_author' = book_author /\ authorsTbl' = authorsTbl
          /\ csv' = csv /\ row' = row
    /\ hist.error = "other" =>
          /\ hist'.error = "other"
          /\ hist'.execs = hist.execs /\ hist'.commits = hist.commits
C8_RowFailureAborts == []C8_State /\ [][C8_Step]_vars
C8_Witness ==
    /\ pc = "done" /\ hist.error = "other"
    /\ row = 2 /\ Len(books) >= 1 /\ Len(book_author) >= 2

\* C9: when the CSV does not exist nothing is inserted or committed, the cursor
\* and the connection are closed all the same, and the exit status is 0.
C9_MissingFile ==
    hist.error = "nofile" =>
        /\ pc \in Teardown
        /\ hist.execs = 0 /\ hist.commits = 0 /\ ~hist.opened
        /\ books = <<>> /\ book_author = <<>> /\ authorsTbl = hist.seed /\ tx = EmptyTx
        /\ csv = <<>>
        /\ exitStatus = IF pc = "done" THEN 0 ELSE -1
        /\ pc = "done" => cur = "closed" /\ conn = "closed"
C9_Witness == pc = "done" /\ hist.error = "nofile" /\ hist.seed # <<>>

\* C10: a run that got a connection goes through connect, cursor, ingestion,
\* close cursor, close connection, in this order and each once; both closes come
\* after ingestion has ended, however it ended, and no statement follows them.
Steps == <<"connect", "cursor", "ingest", "close_cur", "close_conn">>
C10_State ==
    /\ Len(hist.trace) <= Len(Steps)
    /\ hist.trace = SubSeq(Steps, 1, Len(hist.trace))
    /\ hist.lateOps = 0
    /\ conn # "none" => pc # "exited" /\ exitStatus # 1
    /\ cur = "open" => conn = "open"
    /\ cur = "closed" => pc \in {"close_conn", "done"}
    /\ conn = "closed" => pc = "done" /\ cur = "closed"
    /\ pc = "done" => hist.trace = Steps /\ cur = "closed" /\ conn = "closed"
C10_Step ==
    pc \in Teardown =>
        /\ pc' \in Teardown
        /\ hist'.execs = hist.execs /\ hist'.commits = hist.commits
        /\ books' = books /\ book_author' = book_author /\ authorsTbl' = authorsTbl
C10_OrderedLifecycle == []C10_State /\ [][C10_Step]_vars
C10_Witness == pc = "done" /\ hist.error = "other" /\ hist.trace = Steps /\ hist.commits >= 1


\* C11: the exit status is 1 exactly when every attempt of the budget failed
\* and no connection was obtained; a run that obtained a connection ends with
\* status 0, also after a missing file or a failure that was caught.
C11_ExitStatus ==
    /\ exitStatus \in {-1, 0, 1}
    /\ exitStatus = -1 <=> pc \notin {"done", "exited"}
    /\ exitStatus = 1 <=> (pc = "exited" /\ conn = "none" /\ hist.attempts = retries)
    /\ exitStatus = 0 <=> (pc = "done" /\ conn = "closed")
    /\ conn # "none" => exitStatus # 1
    /\ hist.error # "none" => exitStatus # 1
C11_Witness == pc = "done" /\ hist.error = "other" /\ exitStatus = 0 /\ hist.commits >= 1

\* C12: an author that get_or_create_author has returned is in the committed
\* authors table from then on, whatever fails later in the row or in the run.
C12_State ==
    \A p \in hist.resolved :
        \E i \in 1..Len(authorsTbl) : authorsTbl[i] = [author_id |-> p[2], name |-> p[1]]
C12_Step ==
    /\ Len(authorsTbl') >= Len(authorsTbl)
    /\ \A i \in 1..Len(authorsTbl) : authorsTbl'[i] = authorsTbl[i]
C12_AuthorDurable == []C12_State /\ [][C12_Step]_vars
C12_Witness ==
    /\ pc = "done" /\ hist.error = "other"
    /\ Len(authorsTbl) > Len(hist.seed)
    /\ book_author = <<>>


\* C13: a second clean run over the same CSV adds its N books again (2N in
\* all, the same ISBNs twice), adds no row to authors, and resolves every name
\* to the identifier the first run left for it.
C13_Rerun ==
    hist.run = 2 =>
        /\ authorsTbl = hist.first.authors /\ tx.authors = <<>>
        /\ hist.resolved \subseteq hist.first.resolved
        /\ (pc = "done" /\ hist.error = "none") =>
              /\ csv = hist.file
              /\ Len(hist.first.books) = Len(csv)
              /\ Len(books) = 2 * Len(csv)
              /\ \A i \in 1..Len(csv) :
                    /\ books[i].isbn13 = csv[i].isbn13
                    /\ books[Len(csv) + i].isbn13 = csv[i].isbn13
              /\ Distinct([i \in 1..Len(books) |-> books[i].book_id])
              /\ hist.resolved = hist.first.resolved
C13_Witness ==
    /\ hist.run = 2 /\ pc = "done" /\ hist.error = "none"
    /\ Len(books) = 4
    /\ Len(authorsTbl) = 2 /\ hist.first.resolved # {} /\ Len(book_author) >= 4


\* C14: for a budget of at least 1, the first success ends the attempts; a
\* success at attempt k comes after k attempts and k-1 sleeps, each sleep right
\* after a failed attempt; when all attempts fail there are as many attempts as
\* the budget, one sleep fewer, no sleep after the last failure, and exit 1.
C14_State ==
    retries >= 1 =>
        /\ pc = "connect" =>
              /\ attempt < retries /\ conn = "none"
              /\ hist.attempts = attempt /\ hist.sleeps = attempt
        /\ pc = "sleep" =>
              /\ attempt < retries - 1 /\ conn = "none"
              /\ hist.attempts = attempt + 1 /\ hist.sleeps = attempt
        /\ pc = "cursor" =>
              /\ conn = "open"
              /\ hist.attempts \in 1..retries
              /\ hist.sleeps = hist.attempts - 1
        /\ pc = "exited" =>
              /\ conn = "none" /\ exitStatus = 1
              /\ hist.attempts = retries /\ hist.sleeps = retries - 1
C14_Step ==
    retries >= 1 =>
        /\ conn = "open" => hist'.attempts <= hist.attempts /\ hist'.sleeps <= hist.sleeps
        /\ hist'.sleeps > hist.sleeps =>
              /\ hist'.sleeps = hist.sleeps + 1 /\ hist'.attempts = hist.attempts
              /\ hist.attempts = hist.sleeps + 1
        /\ pc' = "exited" => pc = "connect" /\ hist'.sleeps = hist.sleeps
C14_RetryCounts == []C14_State /\ [][C14_Step]_vars
C14_Witness ==
    /\ pc = "cursor" /\ conn = "open"
    /\ retries = 4 /\ hist.attempts = 3 /\ hist.sleeps = 2

\* C15: for every budget, 0 included, connect_to_database gives its caller an
\* open connection or ends the process with a non-zero status itself.
C15_ConnectContract ==
    /\ pc = "cursor" => conn = "open"
    /\ pc = "exited" => exitStatus = 1 /\ hist.attempts = retries /\ hist.attempts >= 1


\* C16: each author mention makes one lookup by exact name.  A lookup that
\* finds a row returns the identifier of that row and inserts and commits
\* nothing: the tables and the pending work of the row stay as they are.  An
\* authors row is inserted, and then committed, only after a lookup that found
\* no row of that name.
C16_State ==
    /\ pc = "lookup" => Len(hist.calls) = aIdx - 1
    /\ pc \in {"ins_author", "author_commit", "assoc"} =>
          Len(hist.calls) = aIdx /\ hist.calls[aIdx] = authors[aIdx]
    /\ pc = "ins_author" => NamedIds(ViewAuthors, authors[aIdx]) = {}
    /\ pc = "row_commit" => Len(hist.calls) = Len(authors)
C16_Step ==
    /\ (pc = "lookup" /\ hist'.error = hist.error) =>
          /\ hist'.execs = hist.execs + 1 /\ hist'.commits = hist.commits
          /\ hist'.calls = Append(hist.calls, authors[aIdx])
          /\ books' = books /\ authorsTbl' = authorsTbl /\ book_author' = book_author
          /\ tx' = tx
          /\ IF NamedIds(ViewAuthors, authors[aIdx]) # {}
             THEN /\ pc' = "assoc"
                  /\ author_id' \in NamedIds(ViewAuthors, authors[aIdx])
                  /\ hist'.rets = Append(hist.rets, author_id')
             ELSE pc' = "ins_author" /\ hist'.rets = hist.rets
    /\ Len(authorsTbl') + Len(tx'.authors) > Len(ViewAuthors) =>
          /\ pc = "ins_author"
          /\ authorsTbl' \o tx'.authors =
                Append(ViewAuthors, [author_id |-> nextAuthorId, name |-> authors[aIdx]])
          /\ pc' = "author_commit"
    /\ (pc = "author_commit" /\ hist'.error = hist.error) =>
          /\ hist'.commits = hist.commits + 1
          /\ tx'.authors = <<>>
          /\ pc' = "assoc"
C16_LookupThenCreate == []C16_State /\ [][C16_Step]_vars
C16_Witness ==
    /\ pc = "assoc"
    /\ Len(hist.rets) = 2
    /\ tx.books # <<>> /\ tx.book_author # <<>>


\* C17: the list of mentions of a row is never empty, so a row that reaches its
\* commit has at least one resolution and one association; an entry that is
\* empty (an empty field, nothing between two commas) is the author named by
\* the empty string, which then exists in authors and is linked to the book.
Blank(e) == \A p \in 1..Len(e) : e[p] \in Whitespace
C17_NeverNoAuthor ==
    /\ pc \in {"lookup", "ins_author", "author_commit", "assoc", "row_commit"} =>
          Len(authors) >= 1
    /\ pc = "row_commit" =>
          /\ Len(hist.rets) >= 1
          /\ Cardinality(LinksOf(ViewBookAuthor, book_id)) >= 1
          /\ \A i \in 1..EntryCount(csv[row].authors) :
                Blank(Entry(csv[row].authors, i)) =>
                    /\ hist.calls[i] = <<>>
                    /\ hist.rets[i] \in NamedIds(ViewAuthors, <<>>)
                    /\ <<book_id, hist.rets[i]>> \in Range(ViewBookAuthor)
C17_Witness ==
    /\ pc = "row_commit" /\ row = 1
    /\ csv[row].authors = <<>>
    /\ hist.commits = 1 /\ Len(hist.rets) = 1


\* C18: every run ends: either the process has exited with status 1 without a
\* connection, or the cursor and the connection are closed and the script is
\* over.
Terminated ==
    \/ pc = "exited" /\ exitStatus = 1 /\ conn = "none"
    \/ pc = "done" /\ cur = "closed" /\ conn = "closed"
C18_Terminates == <>Terminated
C18_Witness ==
    /\ pc = "done" /\ cur = "closed" /\ conn = "closed"
    /\ Len(csv) = 2 /\ Len(books) = 2 /\ hist.error = "none"

====
